---- MODULE Spec2Model ----
(***************************************************************************)
(* Background-image optimizer: the request supersession guard of the       *)
(* useImageOptimizer hook (handleFileSelection), the processImage          *)
(* orchestrator, the renderVariant sizing arithmetic and the default       *)
(* decode (loadImage, the cached HEIC converter, getImageFromBlob).        *)
(*                                                                         *)
(* Eight specifications share the module:                                  *)
(*   Spec         - the hook over an empty, working store: selections,     *)
(*                  in-flight processImage promises, their settlement in   *)
(*                  any order, clearLogs;                                  *)
(*   SpecLive     - Spec with every processImage promise settling in the   *)
(*                  end (weak fairness of the settling step);              *)
(*   SpecLog      - the hook mounted over any store content, one request   *)
(*                  at a time, with a setItem that may throw;              *)
(*   SpecAppend   - the setLogs updater applied repeatedly to a loaded log;*)
(*   SpecProcess  - one processImage call against injected dependencies;   *)
(*   SpecRender   - one renderVariant call over a sweep of raster sizes;   *)
(*   SpecClassify - isHeicFile and isSupportedImageFile over a set of      *)
(*                  names and declared types;                              *)
(*   SpecDecode   - overlapping loadImage calls of the default             *)
(*                  dependencies.                                          *)
(*                                                                         *)
(* JavaScript numbers are IEEE-754 doubles.  The scale factor              *)
(* clampedWidth / sourceWidth and the product sourceHeight * scale are     *)
(* modelled bit-exactly (53-bit significand, round-to-nearest-even) on     *)
(* little-endian bit sequences, because the rounded height depends on it.  *)
(* Strings that the code inspects (file name, media type) are sequences    *)
(* of one-character strings.  Qualities are written in hundredths          *)
(* (0.8 is 80).                                                            *)
(***************************************************************************)
EXTENDS Integers, Sequences, FiniteSets, TLC

\* null for strings
NULL == "null"
\* an optional value (T | null, or a field that may be missing): empty or one element
None == <<>>
Some(x) == <<x>>

(***************************************************************************)
(* Strings as character sequences                                          *)
(***************************************************************************)

\* String.prototype.toLowerCase on one character (the letters the inputs use)
LowerChar(c) ==
  CASE c = "H" -> "h"
    [] c = "E" -> "e"
    [] c = "I" -> "i"
    [] c = "C" -> "c"
    [] c = "F" -> "f"
    [] c = "P" -> "p"
    [] c = "N" -> "n"
    [] c = "G" -> "g"
    [] OTHER -> c

toLowerCase(s) == [i \in 1..Len(s) |-> LowerChar(s[i])]

startsWith(s, p) ==
  /\ Len(p) <= Len(s)
  /\ SubSeq(s, 1, Len(p)) = p

endsWith(s, p) ==
  /\ Len(p) <= Len(s)
  /\ SubSeq(s, Len(s) - Len(p) + 1, Len(s)) = p

(***************************************************************************)
(* IEEE-754 double arithmetic.  A natural of any size is a sequence of     *)
(* bits, index 1 the least significant.  A double is                       *)
(* [m |-> bits, e |-> exponent] with value Nat(m) * 2^e, where m has at    *)
(* most SignificandBits bits.  Carries and long division run on limbs of   *)
(* LimbBits bits, so every intermediate number stays below 2^31.           *)
(***************************************************************************)

SignificandBits == 53
LimbBits == 10
LimbBase == 2^LimbBits
DivLimbs == 8          \* limbs of quotient the division develops (80 bits)

Bit(b, i) == IF i \in 1..Len(b) THEN b[i] ELSE 0

\* limb j (1 = least significant) of a bit sequence
LimbOf(b, j) ==
  LET o == LimbBits * (j - 1)
  IN  Bit(b, o + 1) + 2 * Bit(b, o + 2) + 4 * Bit(b, o + 3) + 8 * Bit(b, o + 4)
      + 16 * Bit(b, o + 5) + 32 * Bit(b, o + 6) + 64 * Bit(b, o + 7)
      + 128 * Bit(b, o + 8) + 256 * Bit(b, o + 9) + 512 * Bit(b, o + 10)

LimbsOfBits(b) ==
  [j \in 1..((Len(b) + LimbBits - 1) \div LimbBits) |-> LimbOf(b, j)]

\* the number of bits of a limb: 0 for 0, 10 for 512..1023
BitLength(x) == Cardinality({k \in 0..(LimbBits - 1) : 2^k <= x})

\* the number of bits of the natural the limbs hold
TopBitOfLimbs(l) ==
  IF \A j \in 1..Len(l) : l[j] = 0 THEN 0
  ELSE LET top == CHOOSE j \in 1..Len(l) :
                    l[j] # 0 /\ \A k \in (j + 1)..Len(l) : l[k] = 0
       IN  LimbBits * (top - 1) + BitLength(l[top])

\* the bits of the natural the limbs hold, without leading zeros
BitsOfLimbs(l) ==
  [i \in 1..TopBitOfLimbs(l) |->
     (l[(i - 1) \div LimbBits + 1] \div 2^((i - 1) % LimbBits)) % 2]

\* a natural below 2^30 from its bits
NatOfBits(b) ==
  LimbOf(b, 1) + LimbBase * LimbOf(b, 2) + LimbBase * LimbBase * LimbOf(b, 3)

\* limbs * h + carry, for a natural h below 2^21
RECURSIVE MulLimbs(_, _, _)
MulLimbs(l, h, carry) ==
  IF l = <<>>
  THEN IF carry = 0 THEN <<>>
       ELSE <<carry % LimbBase>> \o MulLimbs(<<>>, h, carry \div LimbBase)
  ELSE LET t == l[1] * h + carry
       IN  <<t % LimbBase>> \o MulLimbs(Tail(l), h, t \div LimbBase)

MulSmall(b, h) == BitsOfLimbs(MulLimbs(LimbsOfBits(b), h, 0))

\* bits + 1
Increment(b) ==
  IF \A i \in 1..Len(b) : b[i] = 1
  THEN [i \in 1..(Len(b) + 1) |-> IF i = Len(b) + 1 THEN 1 ELSE 0]
  ELSE LET k == CHOOSE i \in 1..Len(b) :
                  b[i] = 0 /\ \A j \in 1..(i - 1) : b[j] = 1
       IN  [i \in 1..Len(b) |-> IF i < k THEN 0 ELSE IF i = k THEN 1 ELSE b[i]]

\* round-to-nearest, ties-to-even, of (Nat(b) + tail) * 2^e to
\* SignificandBits bits, where 0 <= tail < 1 and inexact says tail # 0
RoundToDouble(b, e, inexact) ==
  IF Len(b) <= SignificandBits THEN [m |-> b, e |-> e]
  ELSE LET d      == Len(b) - SignificandBits
           kept   == SubSeq(b, d + 1, Len(b))
           guard  == b[d]
           sticky == inexact \/ \E i \in 1..(d - 1) : b[i] = 1
           up     == guard = 1 /\ (sticky \/ kept[1] = 1)
           r      == IF up THEN Increment(kept) ELSE kept
       IN  IF Len(r) > SignificandBits
           THEN [m |-> Tail(r), e |-> e + d + 1]
           ELSE [m |-> r, e |-> e + d]

\* long division: the first n limbs of the fraction rem / b, most
\* significant first (rem < b < 2^21)
RECURSIVE FracLimbs(_, _, _)
FracLimbs(rem, b, n) ==
  IF n = 0 THEN <<>>
  ELSE LET t == rem * LimbBase
       IN  <<t \div b>> \o FracLimbs(t % b, b, n - 1)

\* the remainder left after those n limbs
RECURSIVE FracRem(_, _, _)
FracRem(rem, b, n) ==
  IF n = 0 THEN rem ELSE FracRem((rem * LimbBase) % b, b, n - 1)

\* the limbs of a natural below 2^31
NatLimbs(n) ==
  <<n % LimbBase, (n \div LimbBase) % LimbBase,
    (n \div (LimbBase * LimbBase)) % LimbBase,
    n \div (LimbBase * LimbBase * LimbBase)>>

\* the double a / b, for naturals a >= 0 and 0 < b < 2^21
\* (clampedWidth / sourceWidth)
FDiv(a, b) ==
  LET rem    == a % b
      digits == FracLimbs(rem, b, DivLimbs)
      \* floor(a * 2^n / b) for n = LimbBits * DivLimbs, in limbs
      q      == [j \in 1..DivLimbs |-> digits[DivLimbs + 1 - j]]
                  \o NatLimbs(a \div b)
  IN  RoundToDouble(BitsOfLimbs(q), 0 - LimbBits * DivLimbs,
                    FracRem(rem, b, DivLimbs) # 0)

\* the double h * x, for a natural h (sourceHeight * scale)
FMul(h, x) == RoundToDouble(MulSmall(x.m, h), x.e, FALSE)

\* Math.floor in place of Math.round
MathRound_Floor(x) ==
  IF x.e >= 0 THEN NatOfBits([i \in 1..x.e |-> 0] \o x.m)
  ELSE LET f == 0 - x.e
       IN  NatOfBits(IF f < Len(x.m) THEN SubSeq(x.m, f + 1, Len(x.m)) ELSE <<>>)

\* Math.round: the nearest integer, ties toward +Infinity: floor(x + 0.5)
MathRound(x) ==
  IF x.e >= 0 THEN NatOfBits([i \in 1..x.e |-> 0] \o x.m)
  ELSE LET f    == 0 - x.e
           half == Bit(x.m, f)
           int  == IF f < Len(x.m) THEN SubSeq(x.m, f + 1, Len(x.m)) ELSE <<>>
       IN  NatOfBits(int) + half

Min(a, b) == IF a <= b THEN a ELSE b

(***************************************************************************)
(* Files                                                                   *)
(***************************************************************************)

TypeImagePrefix == <<"i","m","a","g","e","/">>
TypeJpeg  == TypeImagePrefix \o <<"j","p","e","g">>
TypeHeic  == TypeImagePrefix \o <<"h","e","i","c">>
TypeHeif  == TypeImagePrefix \o <<"h","e","i","f">>
TypePlain == <<"t","e","x","t","/","p","l","a","i","n">>
ExtHeic   == <<".","h","e","i","c">>
ExtHeif   == <<".","h","e","i","f">>

\* new File([5 bytes], 'sample.jpg', { type: 'image/jpeg' })
SampleJpg == [name |-> <<"s",".","j","p","g">>, type |-> TypeJpeg, size |-> 5]
\* new File([5 bytes], 'note.txt', { type: 'text/plain' })
NoteTxt   == [name |-> <<"n",".","t","x","t">>, type |-> TypePlain, size |-> 5]
\* the default image IMG_0701.HEIC as user agents report it: no media type
ImgHeic   == [name |-> <<"I",".","H","E","I","C">>, type |-> <<>>, size |-> 7]

Files == {SampleJpg, NoteTxt, ImgHeic}

isHeicFile(file) ==
  LET lowerName == toLowerCase(file.name)
  IN  \/ file.type = TypeHeic
      \/ file.type = TypeHeif
      \/ endsWith(lowerName, ExtHeic)
      \/ endsWith(lowerName, ExtHeif)

\* any declared media type passes the gate
isSupportedImageFile_AnyType(file) ==
  Len(file.type) > 0 \/ isHeicFile(file)

isSupportedImageFile(file) ==
  startsWith(file.type, TypeImagePrefix) \/ isHeicFile(file)

(***************************************************************************)
(* The hook useImageOptimizer                                              *)
(***************************************************************************)

MaxCalls == 3          \* handleFileSelection calls in one run
MaxReportSize == 1     \* variant sizes in the reports the hook receives
maxLogEntries == 20

UnsupportedMessage == "Unsupported file type. Please choose an image file."
FallbackMessage    == "Unable to process the selected image."
LoadErrorMessage   == "Unable to load image for processing."

\* what a rejected processImage promise carries: an Error with a message, or
\* a thrown value that is no Error
Rejections == { [isError |-> TRUE, message |-> LoadErrorMessage],
                [isError |-> FALSE, message |-> NULL] }

VARIABLES
  requestIdRef,   \* useRef(0): the request counter
  status,         \* 'idle' | 'processing' | 'ready' | 'error'
  errorMessage,   \* string | null
  optimized,      \* OptimizedImages | null
  previewUrls,    \* { desktop, mobile } | null
  logs,           \* ProcessingLogEntry[], most recent first
  pending,        \* processImage promises not yet settled
  urlCount,       \* URL.createObjectURL calls so far
  revokedUrls,    \* the URLs URL.revokeObjectURL was called with
  logIdCount,     \* createLogId calls so far
  calls,          \* history: handleFileSelection calls so far
  settled,        \* history: the settled promises and whether each was current
  entryOf,        \* history: which call each created log id belongs to
  last            \* history: the step taken last

hookVars == <<requestIdRef, status, errorMessage, optimized, previewUrls, logs,
              pending, urlCount, revokedUrls, logIdCount, calls, settled,
              entryOf, last>>

HookInit ==
  /\ requestIdRef = 0
  /\ status = "idle"
  /\ errorMessage = NULL
  /\ optimized = None
  /\ previewUrls = None
  /\ logs = <<>>
  /\ pending = {}
  /\ urlCount = 0
  /\ revokedUrls = {}
  /\ logIdCount = 0
  /\ calls = 0
  /\ settled = {}
  /\ entryOf = {}
  /\ last = [op |-> "init", call |-> 0, file |-> None]

\* Date.now(): a logical clock that never runs backwards
DateNow == calls + Cardinality(settled)

\* the token taken without the increment
NextRequestId_NoIncrement == requestIdRef

\* const requestId = requestIdRef.current + 1
NextRequestId == requestIdRef + 1

\* the guard after the await left out
StaleAfterAwait_Never(p) == FALSE

\* every completion taken for a superseded one
StaleAfterAwait_Always(p) == TRUE

\* requestIdRef.current !== requestId, after the await
StaleAfterAwait(p) == requestIdRef # p.requestId

\* the guard in the catch branch left out
StaleInCatch_Never(p) == FALSE

\* requestIdRef.current !== requestId, in the catch branch
StaleInCatch(p) == requestIdRef # p.requestId

\* URL.createObjectURL(blob): a fresh URL that resolves to the blob
createObjectURL(blob, n) == [n |-> n, blob |-> blob]

\* the entry added twice
AppendLog_Twice(entry, current) ==
  SubSeq(<<entry, entry>> \o current, 1, Min(Len(current) + 2, maxLogEntries))

\* [entry, ...current].slice(0, maxLogEntries)
AppendLog(entry, current) ==
  SubSeq(<<entry>> \o current, 1, Min(Len(current) + 1, maxLogEntries))

\* the refusal takes a token of its own
TokenAfterRefusal_Advanced == requestIdRef + 1

\* the refusal returns before requestIdRef.current is written
TokenAfterRefusal == requestIdRef

\* handleFileSelection(file), up to its await
handleFileSelection(file) ==
  /\ calls < MaxCalls
  /\ calls' = calls + 1
  /\ IF ~isSupportedImageFile(file)
     THEN /\ errorMessage' = UnsupportedMessage
          /\ status' = "error"
          /\ requestIdRef' = TokenAfterRefusal
          /\ UNCHANGED pending
     ELSE LET requestId == NextRequestId
          IN  /\ requestIdRef' = requestId
              /\ status' = "processing"
              /\ errorMessage' = NULL
              /\ pending' = pending \cup
                   {[call |-> calls + 1, requestId |-> requestId, file |-> file]}
  /\ last' = [op |-> "select", call |-> calls + 1, file |-> Some(file)]
  /\ UNCHANGED <<optimized, previewUrls, logs, urlCount, logIdCount, settled,
                 entryOf>>

\* the continuation of handleFileSelection after processImage resolved
ProcessImageResolved(p, processed) ==
  /\ p \in pending
  /\ pending' = pending \ {p}
  /\ settled' = settled \cup
       {[call |-> p.call, requestId |-> p.requestId, ok |-> TRUE,
         current |-> (requestIdRef = p.requestId)]}
  /\ last' = [op |-> "resolve", call |-> p.call, file |-> None]
  /\ IF StaleAfterAwait(p)
     THEN UNCHANGED <<status, errorMessage, optimized, previewUrls, logs,
                      urlCount, logIdCount, entryOf>>
     ELSE LET desktopUrl == createObjectURL(processed.desktop.blob, urlCount + 1)
              mobileUrl  == createObjectURL(processed.mobile.blob, urlCount + 2)
              entry == [id          |-> logIdCount + 1,
                        fileName    |-> p.file.name,
                        fileSize    |-> p.file.size,
                        durationMs  |-> processed.durationMs,
                        desktopSize |-> processed.desktop.size,
                        mobileSize  |-> processed.mobile.size,
                        timestamp   |-> DateNow]
          IN  /\ urlCount' = urlCount + 2
              /\ optimized' = Some(processed)
              /\ previewUrls' = Some([desktop |-> desktopUrl, mobile |-> mobileUrl])
              /\ status' = "ready"
              /\ logIdCount' = logIdCount + 1
              /\ logs' = AppendLog(entry, logs)
              /\ entryOf' = entryOf \cup {[id |-> entry.id, call |-> p.call]}
              /\ UNCHANGED errorMessage
  /\ UNCHANGED <<requestIdRef, calls>>

\* the message read off whatever was thrown
FailureMessage_Raw(error) == error.message

\* error instanceof Error ? error.message : 'Unable to process the selected
\* image.'
FailureMessage(error) ==
  IF error.isError THEN error.message ELSE FallbackMessage

\* the catch branch takes the report down
ReportAfterFailure_Cleared == None

\* the catch branch calls neither setOptimized nor setPreviewUrls
ReportAfterFailure == optimized

\* the catch branch of handleFileSelection after processImage rejected
ProcessImageRejected(p, error) ==
  /\ p \in pending
  /\ pending' = pending \ {p}
  /\ settled' = settled \cup
       {[call |-> p.call, requestId |-> p.requestId, ok |-> FALSE,
         current |-> (requestIdRef = p.requestId)]}
  /\ last' = [op |-> "reject", call |-> p.call, file |-> None]
  /\ IF StaleInCatch(p)
     THEN UNCHANGED <<status, errorMessage>>
     ELSE /\ errorMessage' = FailureMessage(error)
          /\ status' = "error"
  /\ optimized' = ReportAfterFailure
  /\ UNCHANGED <<requestIdRef, previewUrls, logs, urlCount, logIdCount, calls,
                 entryOf>>

\* clearLogs: setLogs([])
clearLogs ==
  /\ logs # <<>>
  /\ logs' = <<>>
  /\ last' = [op |-> "clear", call |-> 0, file |-> None]
  /\ UNCHANGED <<requestIdRef, status, errorMessage, optimized, previewUrls,
                 pending, urlCount, logIdCount, calls, settled, entryOf>>

\* the report a mocked or real processImage hands to the hook for promise p:
\* an object of its own (id), fully populated
Reports(p) ==
  { [id |-> p.call,
     desktop |-> [blob |-> [of |-> p.call, variant |-> "desktop"], size |-> ds],
     mobile |-> [blob |-> [of |-> p.call, variant |-> "mobile"], size |-> ms],
     original |-> [name |-> p.file.name, size |-> p.file.size],
     durationMs |-> 1] : ds \in 1..MaxReportSize, ms \in 1..MaxReportSize }

(***************************************************************************)
(* The persisted log: localStorage, JSON and parseStoredLogs                *)
(***************************************************************************)

MaxStoredItems == 2    \* persisted arrays of mixed items hold 0..MaxStoredItems
MaxAppends == 25       \* SpecAppend: entries appended in a row

StorageErrorMessage == "QuotaExceededError"

\* JSON values
JsonNull == [t |-> "null"]
JsonNum(n) == [t |-> "num", n |-> n]
JsonObj(fields) == [t |-> "obj", fields |-> fields]
JsonArr(items) == [t |-> "arr", items |-> items]

\* the strings the store may hold: the empty string, a text that is no JSON,
\* or the JSON text of a value
EmptyText == [text |-> "empty", value |-> JsonNull]
GarbageText == [text |-> "garbage", value |-> JsonNull]
JsonText(value) == [text |-> "json", value |-> value]

\* JSON.stringify(logs): an array of objects, each with the entry's own
\* properties (all of them strings or finite numbers)
JSONStringify(entries) ==
  JsonText(JsonArr([i \in 1..Len(entries) |-> JsonObj(entries[i])]))

\* JSON.parse(value): throws on a text that is no JSON
JSONParse(text) ==
  IF text.text = "json" THEN [threw |-> FALSE, value |-> text.value]
  ELSE [threw |-> TRUE, value |-> JsonNull]

\* typeof entry
TypeOf(j) == IF j.t \in {"obj", "arr", "null"} THEN "object" ELSE "number"

\* key in entry, for an entry that is an object
HasKey(j, key) == j.t = "obj" /\ key \in DOMAIN j.fields

\* the filter asking for a key the entries do not have
IsLogEntry_NameKey(entry) ==
  /\ TypeOf(entry) = "object"
  /\ entry.t # "null"
  /\ HasKey(entry, "name")
  /\ HasKey(entry, "durationMs")
  /\ HasKey(entry, "timestamp")

\* the type guard of parseStoredLogs' filter
IsLogEntry(entry) ==
  /\ TypeOf(entry) = "object"
  /\ entry.t # "null"
  /\ HasKey(entry, "fileName")
  /\ HasKey(entry, "durationMs")
  /\ HasKey(entry, "timestamp")

\* Array.isArray left out: a parsed object that passes the filter is kept
parseStoredLogs_NoArrayCheck(value) ==
  IF value = None \/ value[1].text = "empty" THEN <<>>
  ELSE LET parsed == JSONParse(value[1])
       IN  IF parsed.threw THEN <<>>
           ELSE LET items == IF parsed.value.t = "arr" THEN parsed.value.items
                             ELSE <<parsed.value>>
                    kept == SelectSeq(items, IsLogEntry)
                IN  [i \in 1..Len(kept) |-> kept[i].fields]

\* parseStoredLogs(value)
parseStoredLogs(value) ==
  IF value = None \/ value[1].text = "empty" THEN <<>>
  ELSE LET parsed == JSONParse(value[1])
       IN  IF parsed.threw THEN <<>>
           ELSE IF parsed.value.t = "arr"
                THEN LET kept == SelectSeq(parsed.value.items, IsLogEntry)
                     IN  [i \in 1..Len(kept) |-> kept[i].fields]
                ELSE <<>>

VARIABLES
  storage,        \* localStorage under logStorageKey: a string or null
  storedAtLoad,   \* history: what getItem returned to the useState initializer
  setItemLast,    \* history: the setItem of the last step: 'none', 'ok', 'threw'
  uncaught        \* an error that escaped a handler or an effect, or null

storeVars == <<storage, storedAtLoad, setItemLast, uncaught>>

\* the hook mounted over an empty store, its first write done
StoreInit ==
  /\ storage = Some(JSONStringify(<<>>))
  /\ storedAtLoad = None
  /\ setItemLast = "ok"
  /\ uncaught = NULL

\* the catch of the effect left out: the error of setItem escapes
EffectError_NoCatch(threw) == IF threw THEN StorageErrorMessage ELSE NULL

\* try { localStorage.setItem(...) } catch { }: nothing escapes the effect
EffectError(threw) == NULL

\* the effect on [logs]: localStorage.setItem(logStorageKey,
\* JSON.stringify(logs)), which may throw
PersistLogs(outcomes) ==
  \E threw \in outcomes :
    /\ storage' = IF threw THEN storage ELSE Some(JSONStringify(logs'))
    /\ setItemLast' = IF threw THEN "threw" ELSE "ok"
    /\ uncaught' = EffectError(threw)
    /\ UNCHANGED storedAtLoad

\* a step that did not call setLogs runs no effect
NoEffect ==
  /\ setItemLast' = "none"
  /\ UNCHANGED <<storage, storedAtLoad, uncaught>>

\* setLogs was called in this step, with a new array
LogsSet ==
  \/ last'.op = "clear"
  \/ last'.op = "resolve" /\ logIdCount' # logIdCount

\* only the desktop URL of the replaced pair is revoked
RevokePreviews_DesktopOnly ==
  revokedUrls' =
    IF previewUrls' # previewUrls /\ previewUrls # None
    THEN revokedUrls \cup {previewUrls[1].desktop.n}
    ELSE revokedUrls

\* the effect on [previewUrls]: when previewUrls changed, the cleanup of the
\* previous render runs, if (previewUrls) revoking its two URLs
RevokePreviews ==
  revokedUrls' =
    IF previewUrls' # previewUrls /\ previewUrls # None
    THEN revokedUrls \cup {previewUrls[1].desktop.n, previewUrls[1].mobile.n}
    ELSE revokedUrls

\* the effects React runs after a handler's state updates
RunEffects(outcomes) ==
  /\ IF LogsSet THEN PersistLogs(outcomes) ELSE NoEffect
  /\ RevokePreviews

\* entries an earlier session left in the store
OldEntry(k) ==
  [id |-> 0 - k, fileName |-> <<"o",".","j","p","g">>, fileSize |-> 5,
   durationMs |-> 1, desktopSize |-> 1, mobileSize |-> 1, timestamp |-> 0 - k]

\* an object with the three keys the filter asks for and no others
BareEntry == [fileName |-> <<"b">>, durationMs |-> 1, timestamp |-> 0]

\* an object without a timestamp
PartEntry == [fileName |-> <<"p">>, durationMs |-> 1]

StoredItems ==
  {JsonNull, JsonNum(7), JsonArr(<<>>), JsonObj(PartEntry), JsonObj(BareEntry),
   JsonObj(OldEntry(1))}

\* what the store may hold when the hook mounts
StoredContents ==
  {None, Some(EmptyText), Some(GarbageText), Some(JsonText(JsonNull)),
   Some(JsonText(JsonNum(7))), Some(JsonText(JsonObj(BareEntry)))}
  \cup { Some(JsonText(JsonArr(items))) :
           items \in UNION {[1..n -> StoredItems] : n \in 0..MaxStoredItems} }
  \cup { Some(JsonText(JsonArr([i \in 1..n |-> JsonObj(OldEntry(i))]))) :
           n \in (maxLogEntries - 1)..(maxLogEntries + 1) }

\* useImageOptimizer's first render: logs start as parseStoredLogs(getItem)
HookLoaded(stored) ==
  /\ requestIdRef = 0
  /\ status = "idle"
  /\ errorMessage = NULL
  /\ optimized = None
  /\ previewUrls = None
  /\ logs = parseStoredLogs(stored)
  /\ pending = {}
  /\ urlCount = 0
  /\ revokedUrls = {}
  /\ logIdCount = 0
  /\ calls = 0
  /\ settled = {}
  /\ entryOf = {}
  /\ last = [op |-> "init", call |-> 0, file |-> None]
  /\ storage = stored
  /\ storedAtLoad = stored
  /\ setItemLast = "none"
  /\ uncaught = NULL

\* the effect on [logs] after the first render
MountEffect ==
  /\ last.op = "init"
  /\ last' = [op |-> "mount", call |-> 0, file |-> None]
  /\ UNCHANGED <<requestIdRef, status, errorMessage, optimized, previewUrls,
                 logs, pending, urlCount, logIdCount, calls, settled, entryOf>>

\* the setLogs updater of handleFileSelection, applied on its own
AppendEntry ==
  /\ logIdCount < MaxAppends
  /\ LET entry == [id          |-> logIdCount + 1,
                   fileName    |-> SampleJpg.name,
                   fileSize    |-> SampleJpg.size,
                   durationMs  |-> 1,
                   desktopSize |-> 1,
                   mobileSize  |-> 1,
                   timestamp   |-> logIdCount + 1]
     IN  logs' = AppendLog(entry, logs)
  /\ logIdCount' = logIdCount + 1
  /\ last' = [op |-> "append", call |-> 0, file |-> None]
  /\ UNCHANGED <<requestIdRef, status, errorMessage, optimized, previewUrls,
                 pending, urlCount, calls, settled, entryOf>>

(***************************************************************************)
(* processImage and renderVariant                                          *)
(***************************************************************************)

MaxBlobSize == 2       \* byte sizes an encode may report: 1..MaxBlobSize
MaxProcDim == 2        \* SpecProcess: decoded rasters are 0..MaxProcDim wide and high
MaxProcTarget == 2     \* SpecProcess: width overrides are 1..MaxProcTarget
MaxWidth == 22         \* SpecRender: raster widths 0..MaxWidth
MaxHeight == 11        \* SpecRender: raster heights 0..MaxHeight
MaxTarget == 15        \* SpecRender: target widths 1..MaxTarget

InvalidDimensionsMessage == "Source image has invalid dimensions."
ContextUnavailableMessage == "Canvas context is unavailable."
WebPFailedMessage == "WebP conversion failed."

Variants == {"desktop", "mobile"}

DEFAULT_OPTIONS ==
  [desktop |-> [width |-> 1920, quality |-> 80],
   mobile  |-> [width |-> 720, quality |-> 70]]

\* the spreads in the other order, { ...override, ...defaults }
SpreadVariant_DefaultsWin(defaults, override) == defaults

\* { ...defaults, ...override }: a field of the override that is present wins
SpreadVariant(defaults, override) ==
  IF override = None THEN defaults
  ELSE [width   |-> IF override[1].width = None THEN defaults.width
                    ELSE override[1].width[1],
        quality |-> IF override[1].quality = None THEN defaults.quality
                    ELSE override[1].quality[1]]

\* mergedOptions
MergeOptions(options) ==
  [desktop |-> SpreadVariant(DEFAULT_OPTIONS.desktop,
                 IF options = None THEN None ELSE options[1].desktop),
   mobile  |-> SpreadVariant(DEFAULT_OPTIONS.mobile,
                 IF options = None THEN None ELSE options[1].mobile)]

\* the sizing arithmetic of renderVariant, in doubles
ClampedWidth(sourceWidth, targetWidth) == Min(sourceWidth, targetWidth)

ScaledHeight(sourceWidth, sourceHeight, clampedWidth) ==
  LET scale == FDiv(clampedWidth, sourceWidth)
  IN  MathRound(FMul(sourceHeight, scale))

VARIABLES
  pc,              \* where the processImage (or renderVariant) call stands
  pFile,           \* processImage's file argument
  pOptions,        \* processImage's options argument
  mergedOptions,
  image,           \* the LoadedImage the decode produced, or null
  loadImageCalls,  \* calls of deps.loadImage
  canvases,        \* the surfaces deps.createCanvas returned, in order
  drawCalls,       \* context.drawImage calls, in order
  encodes,         \* history: the toBlob callbacks, in the order they ran
  render,          \* per variant: the state of its renderVariant promise
  firstRejection,  \* the reason Promise.all rejects with, once a render failed
  report,          \* what processImage's caller received, or null
  pError,          \* what processImage's caller caught, or null
  perfNow,         \* performance.now()
  startTime

procVars == <<pc, pFile, pOptions, mergedOptions, image, loadImageCalls,
              canvases, drawCalls, encodes, render, firstRejection, report, pError,
              perfNow, startTime>>

NotStarted == [st |-> "none", value |-> None, error |-> NULL]

ProcIdle ==
  /\ pc = "idle"
  /\ pFile = None
  /\ pOptions = None
  /\ mergedOptions = DEFAULT_OPTIONS
  /\ image = None
  /\ loadImageCalls = 0
  /\ canvases = <<>>
  /\ drawCalls = <<>>
  /\ encodes = <<>>
  /\ render = [v \in Variants |-> NotStarted]
  /\ firstRejection = NULL
  /\ report = None
  /\ pError = NULL
  /\ perfNow = 0
  /\ startTime = 0

\* the options a caller may pass: nothing, or per variant nothing or a
\* (possibly partial) ImageVariantOptions
VariantOverrides ==
  {None} \cup
  { Some(o) : o \in [width   : {None} \cup {Some(w) : w \in 1..MaxProcTarget},
                     quality : {None, Some(50)}] }

OptionValues ==
  {None} \cup { Some(o) : o \in [desktop : VariantOverrides, mobile : VariantOverrides] }

\* processImage(file, options, deps), up to its await of deps.loadImage
processImage(file, options) ==
  /\ pc = "idle"
  /\ pFile' = Some(file)
  /\ pOptions' = options
  /\ startTime' = perfNow
  /\ mergedOptions' = MergeOptions(options)
  /\ loadImageCalls' = loadImageCalls + 1
  /\ pc' = "loading"
  /\ UNCHANGED <<image, canvases, drawCalls, encodes, render, firstRejection,
                 report, pError, perfNow>>

\* deps.loadImage resolved with a LoadedImage
LoadImageResolved(img) ==
  /\ pc = "loading"
  /\ image' = Some(img)
  /\ perfNow' = perfNow + 1
  /\ pc' = "renderDesktop"
  /\ UNCHANGED <<pFile, pOptions, mergedOptions, loadImageCalls, canvases,
                 drawCalls, encodes, render, firstRejection, report, pError,
                 startTime>>

\* the decode error caught and replaced by another
LoadImageRejected_Wrapped(message) ==
  /\ pc = "loading"
  /\ pError' = FallbackMessage
  /\ perfNow' = perfNow + 1
  /\ pc' = "rejected"
  /\ UNCHANGED <<pFile, pOptions, mergedOptions, image, loadImageCalls,
                 canvases, drawCalls, encodes, render, firstRejection, report,
                 startTime>>

\* deps.loadImage rejected: the error propagates out of processImage
LoadImageRejected(message) ==
  /\ pc = "loading"
  /\ pError' = message
  /\ perfNow' = perfNow + 1
  /\ pc' = "rejected"
  /\ UNCHANGED <<pFile, pOptions, mergedOptions, image, loadImageCalls,
                 canvases, drawCalls, encodes, render, firstRejection, report,
                 startTime>>

Fulfilled(blob, width, height, quality) ==
  [st |-> "fulfilled",
   value |-> Some([blob |-> blob, width |-> width, height |-> height,
                   size |-> blob.size, quality |-> quality]),
   error |-> NULL]

Rejected(message) == [st |-> "rejected", value |-> None, error |-> message]

\* what canvas.toBlob hands to its callback: a Blob or null
BlobValues == {None} \cup { Some(b) : b \in [size : 1..MaxBlobSize] }

\* toWebPBlob's callback
BlobOutcome(blob, width, height, quality) ==
  IF blob = None THEN Rejected(WebPFailedMessage)
  ELSE Fulfilled(blob[1], width, height, quality)

\* canvas.toBlob calls back at once with a Blob or null, or later
ToBlobBehaviours ==
  {[later |-> TRUE, blob |-> None]} \cup [later : {FALSE}, blob : BlobValues]

\* the renderVariant calls made so far
Started == {w \in Variants : render[w].st # "none"}

\* a toBlob callback that ran: for which variant, on which surface, with
\* which blob, and which renders had been started by then
Encoded(v, canvas, blob, started) ==
  [variant |-> v, canvas |-> canvas, blob |-> blob, started |-> started]

NoteRejection(v) ==
  firstRejection' =
    IF firstRejection = NULL /\ render'[v].st = "rejected"
    THEN render'[v].error ELSE firstRejection

\* only a zero width is refused
InvalidDimensions_WidthOnly(sourceWidth, sourceHeight) == sourceWidth = 0

\* if (image.width === 0 || image.height === 0)
InvalidDimensions(sourceWidth, sourceHeight) ==
  sourceWidth = 0 \/ sourceHeight = 0

\* renderVariant(image, targetWidth, quality, deps), up to its await of
\* toWebPBlob; a surface may call the toBlob callback at once or later
renderVariant(v, targetWidth, quality, next) ==
  LET sourceWidth  == image[1].width
      sourceHeight == image[1].height
  IN
  /\ IF InvalidDimensions(sourceWidth, sourceHeight)
     THEN /\ render' = [render EXCEPT ![v] = Rejected(InvalidDimensionsMessage)]
          /\ UNCHANGED <<canvases, drawCalls, encodes>>
     ELSE LET clampedWidth == ClampedWidth(sourceWidth, targetWidth)
              scaledHeight == ScaledHeight(sourceWidth, sourceHeight, clampedWidth)
              canvas == [variant |-> v, width |-> clampedWidth,
                         height |-> scaledHeight]
          IN  /\ canvases' = Append(canvases, canvas)
              /\ \E context \in BOOLEAN :
                   IF ~context
                   THEN /\ render' = [render EXCEPT
                             ![v] = Rejected(ContextUnavailableMessage)]
                        /\ UNCHANGED <<drawCalls, encodes>>
                   ELSE /\ drawCalls' = Append(drawCalls,
                             [variant |-> v, width |-> canvas.width,
                              height |-> canvas.height,
                              dWidth |-> clampedWidth, dHeight |-> scaledHeight])
                        /\ \E callback \in ToBlobBehaviours :
                             /\ render' = [render EXCEPT ![v] =
                                  IF callback.later
                                  THEN [st |-> "encoding", value |-> None,
                                        error |-> NULL]
                                  ELSE BlobOutcome(callback.blob, clampedWidth,
                                                   scaledHeight, quality)]
                             /\ encodes' =
                                  IF callback.later THEN encodes
                                  ELSE Append(encodes,
                                         Encoded(v, Len(canvases) + 1,
                                                 callback.blob, Started \cup {v}))
  /\ NoteRejection(v)
  /\ pc' = next
  /\ UNCHANGED <<pFile, pOptions, mergedOptions, image, loadImageCalls, report,
                 pError, perfNow, startTime>>

\* Promise.all([renderVariant(desktop), renderVariant(mobile)]): both calls
\* are made, in this order, before processImage suspends again
RenderDesktop ==
  /\ pc = "renderDesktop"
  /\ renderVariant("desktop", mergedOptions.desktop.width,
                   mergedOptions.desktop.quality, "renderMobile")

RenderMobile ==
  /\ pc = "renderMobile"
  /\ renderVariant("mobile", mergedOptions.mobile.width,
                   mergedOptions.mobile.quality, "awaitAll")

\* a toBlob callback that was not made at once arrives; a settlement of
\* Promise.all that is already due is delivered first
ToBlobCallback(v, blob) ==
  /\ pc \in {"awaitAll", "rejected", "awaitOne"}
  /\ render[v].st = "encoding"
  /\ pc = "awaitAll" => firstRejection = NULL
  /\ LET c == CHOOSE c \in 1..Len(canvases) : canvases[c].variant = v
         q == IF pc = "awaitOne" THEN mergedOptions.desktop.quality
              ELSE mergedOptions[v].quality
     IN  /\ render' = [render EXCEPT ![v] =
              BlobOutcome(blob, canvases[c].width, canvases[c].height, q)]
         /\ encodes' = Append(encodes, Encoded(v, c, blob, Started))
  /\ NoteRejection(v)
  /\ perfNow' = perfNow + 1
  /\ UNCHANGED <<pc, pFile, pOptions, mergedOptions, image, loadImageCalls,
                 canvases, drawCalls, report, pError, startTime>>

\* Promise.allSettled in place of Promise.all: continue once both settled
AllFulfilled_Settled ==
  \A v \in Variants : render[v].st \in {"fulfilled", "rejected"}

\* both renders fulfilled: what lets the await of Promise.all continue
AllFulfilled == \A v \in Variants : render[v].st = "fulfilled"

\* the two results stored under each other's name
AssembleReport_Swapped(desktop, mobile, durationMs) ==
  [desktop |-> mobile,
   mobile |-> desktop,
   original |-> [width |-> image[1].width, height |-> image[1].height,
                 size |-> pFile[1].size, name |-> pFile[1].name,
                 type |-> pFile[1].type],
   durationMs |-> durationMs]

\* the report processImage returns; desktop and mobile hold Some(variant)
\* when populated
AssembleReport(desktop, mobile, durationMs) ==
  [desktop |-> desktop,
   mobile |-> mobile,
   original |-> [width |-> image[1].width, height |-> image[1].height,
                 size |-> pFile[1].size, name |-> pFile[1].name,
                 type |-> pFile[1].type],
   durationMs |-> durationMs]

\* Promise.all fulfilled: processImage returns the report
PromiseAllFulfilled ==
  /\ pc = "awaitAll"
  /\ AllFulfilled
  /\ report' = Some(AssembleReport(render["desktop"].value,
                                   render["mobile"].value,
                                   perfNow - startTime))
  /\ pc' = "resolved"
  /\ UNCHANGED <<pFile, pOptions, mergedOptions, image, loadImageCalls,
                 canvases, drawCalls, encodes, render, firstRejection, pError,
                 perfNow, startTime>>

\* Promise.all rejected on the first render that failed: processImage rejects
PromiseAllRejected ==
  /\ pc = "awaitAll"
  /\ firstRejection # NULL
  /\ pError' = firstRejection
  /\ pc' = "rejected"
  /\ UNCHANGED <<pFile, pOptions, mergedOptions, image, loadImageCalls,
                 canvases, drawCalls, encodes, render, firstRejection, report,
                 perfNow, startTime>>

\* a direct renderVariant call (SpecRender)
RenderOnly ==
  /\ pc = "renderOnly"
  /\ renderVariant("desktop", mergedOptions.desktop.width,
                   mergedOptions.desktop.quality, "awaitOne")

\* the raster of the test suites: loadImage resolves with 4000 x 2000
TestImage == [width |-> 4000, height |-> 2000]

ProcImages == [width : 0..MaxProcDim, height : 0..MaxProcDim] \cup {TestImage}

CallProcessImage ==
  \E file \in Files : \E options \in OptionValues : processImage(file, options)
LoadResolves == \E img \in ProcImages : LoadImageResolved(img)
LoadRejects == LoadImageRejected(LoadErrorMessage)
BlobArrives == \E v \in Variants : \E blob \in BlobValues : ToBlobCallback(v, blob)

SelectFile == \E file \in Files : handleFileSelection(file)
Resolve    == \E p \in pending : \E r \in Reports(p) : ProcessImageResolved(p, r)
Reject     == \E p \in pending : \E e \in Rejections : ProcessImageRejected(p, e)



(***************************************************************************)
(* The default decode: createDefaultDeps().loadImage, convertHeicToBlob,   *)
(* loadHeicConverter and getImageFromBlob                                  *)
(***************************************************************************)

MaxDecodes == 2        \* SpecDecode: loadImage calls that may overlap
MaxConverted == 2      \* blobs in the array the converter may return

HeicFailedMessage == "HEIC conversion failed."
ImportErrorMessage == "Failed to fetch dynamically imported module"
ConverterErrorMessage == "ERR_LIBHEIF format not supported"

Decodes == 1..MaxDecodes

\* the blob handed to getImageFromBlob: the file itself or a converted blob
FileBlob == [src |-> "file", index |-> 0]
ConvertedBlob(i) == [src |-> "converted", index |-> i]

\* what the converter promise settles with: a rejection, one Blob, or an
\* array of Blobs that may be empty
ConverterResults ==
  {[kind |-> "rejected", blobs |-> <<>>],
   [kind |-> "blob", blobs |-> <<ConvertedBlob(1)>>]}
  \cup {[kind |-> "array", blobs |-> [i \in 1..n |-> ConvertedBlob(i)]] :
          n \in 0..MaxConverted}

\* the size an HTMLImageElement reports when a callback runs
ImageSizes == {[natural |-> 2, layout |-> 1]}

\* the sizes of an ImageBitmap
BitmapSizes == {[width |-> 2, height |-> 2]}

\* the completion callbacks of the fallback path
Callbacks == {"onload", "onerror", "decodeResolved", "decodeRejected"}

VARIABLES
  heicConverterPromise,  \* 'null', or the state of the cached import promise
  importCalls,           \* import('heic2any') calls so far
  hasCreateImageBitmap,  \* typeof createImageBitmap === 'function'
  hasDecode,             \* 'decode' in image
  decodes                \* per loadImage call: where it stands

decodeVars == <<heicConverterPromise, importCalls, hasCreateImageBitmap,
                hasDecode, decodes>>

\* a loadImage call: pc, file, blob (what getImageFromBlob was given),
\* settled (the flag of the fallback path), result and error are the call's
\* state; the other fields are history: afterFailedLoad (heicConverterPromise
\* was rejected when the call began), converted (what the converter settled with),
\* bitmapOutcome (how createImageBitmap settled), fired (the callbacks that
\* ran, in order), settles (resolve or reject calls) and the call counts
DecodeNotCalled ==
  [pc |-> "idle", file |-> None, blob |-> None, settled |-> FALSE,
   result |-> None, error |-> NULL,
   afterFailedLoad |-> FALSE, converterCalls |-> 0, converted |-> None,
   bitmapCalls |-> 0, bitmapOutcome |-> "none", urlsCreated |-> 0,
   urlsRevoked |-> 0, fired |-> <<>>, settles |-> 0]

DecodeIdle ==
  /\ heicConverterPromise = "null"
  /\ importCalls = 0
  /\ hasCreateImageBitmap = TRUE
  /\ hasDecode = TRUE
  /\ decodes = [d \in Decodes |-> DecodeNotCalled]

\* the cache dropped after a failed load
ConverterCached_UnlessFailed == heicConverterPromise \notin {"null", "rejected"}

\* heicConverterPromise is set: !heicConverterPromise is false
ConverterCached == heicConverterPromise # "null"

\* new Promise(...) of getImageFromBlob, up to its return: the staging URL
\* is created, the handlers are set, src is assigned, decode() is called
EnterFallback(r) == [r EXCEPT !.pc = "fallback", !.urlsCreated = @ + 1]

\* the fallback path entered although createImageBitmap exists
UseFastPath_Never == FALSE

\* typeof createImageBitmap === 'function'
UseFastPath == hasCreateImageBitmap

\* getImageFromBlob(blob), up to its first await or its return
EnterGetImage(r, blob) ==
  IF UseFastPath
  THEN [r EXCEPT !.pc = "awaitBitmap", !.blob = Some(blob),
                 !.bitmapCalls = @ + 1]
  ELSE EnterFallback([r EXCEPT !.blob = Some(blob)])

\* the converter called for every file
NeedsConversion_Always(file) == TRUE

\* if (isHeicFile(file))
NeedsConversion(file) == isHeicFile(file)

\* loadImage(file) of the default dependencies, up to its first await
loadImage(d, file) ==
  /\ decodes[d].pc = "idle"
  /\ IF NeedsConversion(file)
     THEN /\ IF ConverterCached
             THEN UNCHANGED <<heicConverterPromise, importCalls>>
             ELSE /\ heicConverterPromise' = "pending"
                  /\ importCalls' = importCalls + 1
          /\ decodes' = [decodes EXCEPT ![d] =
               [@ EXCEPT !.pc = "awaitConverter", !.file = Some(file),
                         !.afterFailedLoad =
                            (heicConverterPromise = "rejected")]]
     ELSE /\ decodes' = [decodes EXCEPT ![d] =
               EnterGetImage([@ EXCEPT !.file = Some(file)], FileBlob)]
          /\ UNCHANGED <<heicConverterPromise, importCalls>>
  /\ UNCHANGED <<hasCreateImageBitmap, hasDecode>>

\* import('heic2any') settles
ImportSettled(ok) ==
  /\ heicConverterPromise = "pending"
  /\ heicConverterPromise' = IF ok THEN "fulfilled" ELSE "rejected"
  /\ UNCHANGED <<importCalls, hasCreateImageBitmap, hasDecode, decodes>>

\* convertHeicToBlob after await loadHeicConverter(): the converter is
\* called, or the failed load propagates
ConverterReady(d) ==
  /\ decodes[d].pc = "awaitConverter"
  /\ heicConverterPromise \in {"fulfilled", "rejected"}
  /\ decodes' = [decodes EXCEPT ![d] =
       IF heicConverterPromise = "rejected"
       THEN [@ EXCEPT !.pc = "rejected", !.error = ImportErrorMessage]
       ELSE [@ EXCEPT !.pc = "converting", !.converterCalls = @ + 1]]
  /\ UNCHANGED <<heicConverterPromise, importCalls, hasCreateImageBitmap,
                 hasDecode>>

\* convertHeicToBlob after await converter(...), and loadImage's call of
\* getImageFromBlob(converted)
ConverterSettled(d, result) ==
  /\ decodes[d].pc = "converting"
  /\ decodes' = [decodes EXCEPT ![d] =
       IF result.kind = "rejected"
       THEN [@ EXCEPT !.pc = "rejected", !.error = ConverterErrorMessage,
                      !.converted = Some(result)]
       ELSE IF result.blobs = <<>>
       THEN [@ EXCEPT !.pc = "rejected", !.error = HeicFailedMessage,
                      !.converted = Some(result)]
       ELSE EnterGetImage([@ EXCEPT !.converted = Some(result)],
                          result.blobs[1])]
  /\ UNCHANGED <<heicConverterPromise, importCalls, hasCreateImageBitmap,
                 hasDecode>>

\* getImageFromBlob after await createImageBitmap(blob): the bitmap is
\* returned, or the error is caught and the fallback path is entered
CreateImageBitmapSettled(d, ok, bitmap) ==
  /\ decodes[d].pc = "awaitBitmap"
  /\ decodes' = [decodes EXCEPT ![d] =
       IF ok
       THEN [@ EXCEPT !.pc = "resolved",
                      !.bitmapOutcome = "ok",
                      !.result = Some([source |-> "bitmap",
                                       blob |-> decodes[d].blob[1],
                                       width |-> bitmap.width,
                                       height |-> bitmap.height])]
       ELSE EnterFallback([@ EXCEPT !.bitmapOutcome = "threw"])]
  /\ UNCHANGED <<heicConverterPromise, importCalls, hasCreateImageBitmap,
                 hasDecode>>

\* the settled flag ignored
AlreadySettled_Ignored(r) == FALSE

\* if (settled) return
AlreadySettled(r) == r.settled

\* resolveImage (onload, decode() resolved) or rejectImage (onerror,
\* decode() rejected) runs
ImageCallback(d, callback, size) ==
  LET r == decodes[d]
      resolves == callback \in {"onload", "decodeResolved"}
      ran == {r.fired[i] : i \in 1..Len(r.fired)}
      width == IF size.natural > 0 THEN size.natural ELSE size.layout
      height == IF size.natural > 0 THEN size.natural ELSE size.layout
  IN
  /\ r.urlsCreated > 0
  /\ callback \notin ran
  /\ callback = "onload" => "onerror" \notin ran
  /\ callback = "onerror" => "onload" \notin ran
  /\ callback = "decodeResolved" => (hasDecode /\ "decodeRejected" \notin ran)
  /\ callback = "decodeRejected" => (hasDecode /\ "decodeResolved" \notin ran)
  /\ decodes' = [decodes EXCEPT ![d] =
       IF AlreadySettled(r)
       THEN [@ EXCEPT !.fired = Append(@, callback)]
       ELSE IF resolves
       THEN [@ EXCEPT !.fired = Append(@, callback),
                      !.settled = TRUE,
                      !.urlsRevoked = @ + 1,
                      !.settles = @ + 1,
                      !.pc = IF r.settles = 0 THEN "resolved" ELSE @,
                      !.result =
                         IF r.settles = 0
                         THEN Some([source |-> "image", blob |-> r.blob[1],
                                    width |-> width, height |-> height])
                         ELSE @]
       ELSE [@ EXCEPT !.fired = Append(@, callback),
                      !.settled = TRUE,
                      !.urlsRevoked = @ + 1,
                      !.settles = @ + 1,
                      !.pc = IF r.settles = 0 THEN "rejected" ELSE @,
                      !.error = IF r.settles = 0 THEN LoadErrorMessage ELSE @]]
  /\ UNCHANGED <<heicConverterPromise, importCalls, hasCreateImageBitmap,
                 hasDecode>>

\* the calls are numbered in the order they are made
CallLoadImage ==
  \E d \in Decodes : \E file \in {SampleJpg, ImgHeic} :
    /\ \A e \in 1..(d - 1) : decodes[e].pc # "idle"
    /\ loadImage(d, file)


(***************************************************************************)
(* The inputs of the classifiers                                           *)
(***************************************************************************)

TypePng == TypeImagePrefix \o <<"p","n","g">>
TypeOctetStream == <<"a","p","p","l","i","c","a","t","i","o","n","/","o","c","t","e","t","-","s","t","r","e","a","m">>

\* the names and the declared types the classified inputs are drawn from
ClassifyNames ==
  {<<"s",".","j","p","g">>,
   <<"n",".","t","x","t">>,
   <<"I",".","H","E","I","C">>,
   <<"a",".","h","e","i","c">>,
   <<"a",".","h","e","i","f">>,
   <<"A",".","H","e","i","F">>,
   <<"h","e","i","c">>,
   <<"a",".","h","e","i","c",".","t","x","t">>,
   <<".","h","e","i","f">>}
ClassifyTypes ==
  {<<>>, TypeOctetStream, TypeHeic, TypeHeif, TypeJpeg, TypePng, TypePlain}
ClassifyFiles == [name : ClassifyNames, type : ClassifyTypes, size : {5}]

VARIABLES
  input,        \* the File handed to the classifiers
  classified    \* what isHeicFile and isSupportedImageFile returned, or null

classVars == <<input, classified>>

vars == <<hookVars, storeVars, procVars, classVars, decodeVars>>

ClassIdle ==
  /\ input = None
  /\ classified = None

(***************************************************************************)
(* Spec: the hook                                                          *)
(***************************************************************************)
Init == HookInit /\ StoreInit /\ ProcIdle /\ ClassIdle /\ DecodeIdle
Next ==
  \/ SelectFile /\ RunEffects({FALSE}) /\ UNCHANGED <<procVars, classVars, decodeVars>>
  \/ Resolve /\ RunEffects({FALSE}) /\ UNCHANGED <<procVars, classVars, decodeVars>>
  \/ Reject /\ RunEffects({FALSE}) /\ UNCHANGED <<procVars, classVars, decodeVars>>
  \/ clearLogs /\ RunEffects({FALSE}) /\ UNCHANGED <<procVars, classVars, decodeVars>>
Spec == Init /\ [][Next]_vars

\* SpecLive: the hook when every processImage promise settles in the end
Settle ==
  /\ Resolve \/ Reject
  /\ RunEffects({FALSE})
  /\ UNCHANGED <<procVars, classVars, decodeVars>>
SpecLive == Init /\ [][Next]_vars /\ WF_vars(Settle)

(***************************************************************************)
(* SpecLog: the hook mounted over any store content, one request at a     *)
(* time, with a store whose setItem may throw                              *)
(***************************************************************************)
\* one request at a time, for sample.jpg or note.txt; processImage resolves
\* with the smallest report or rejects with an Error
SelectOne ==
  pending = {} /\ \E file \in {SampleJpg, NoteTxt} : handleFileSelection(file)
ResolveOne ==
  \E p \in pending : \E r \in Reports(p) :
    /\ r.desktop.size = 1
    /\ r.mobile.size = 1
    /\ ProcessImageResolved(p, r)
RejectOne ==
  \E p \in pending :
    ProcessImageRejected(p, [isError |-> TRUE, message |-> LoadErrorMessage])
InitLog ==
  /\ \E stored \in StoredContents : HookLoaded(stored)
  /\ ProcIdle
  /\ ClassIdle
  /\ DecodeIdle
Mounted == last.op # "init"
NextLog ==
  \/ MountEffect /\ PersistLogs(BOOLEAN) /\ RevokePreviews /\ UNCHANGED <<procVars, classVars, decodeVars>>
  \/ Mounted /\ SelectOne /\ RunEffects(BOOLEAN) /\ UNCHANGED <<procVars, classVars, decodeVars>>
  \/ Mounted /\ ResolveOne /\ RunEffects(BOOLEAN) /\ UNCHANGED <<procVars, classVars, decodeVars>>
  \/ Mounted /\ RejectOne /\ RunEffects(BOOLEAN) /\ UNCHANGED <<procVars, classVars, decodeVars>>
  \/ Mounted /\ clearLogs /\ RunEffects(BOOLEAN) /\ UNCHANGED <<procVars, classVars, decodeVars>>
SpecLog == InitLog /\ [][NextLog]_vars

(***************************************************************************)
(* SpecAppend: the setLogs updater applied MaxAppends times in a row to a  *)
(* loaded log                                                              *)
(***************************************************************************)
NextAppend ==
  /\ AppendEntry
  /\ PersistLogs({FALSE})
  /\ RevokePreviews
  /\ UNCHANGED <<procVars, classVars, decodeVars>>
SpecAppend == InitLog /\ [][NextAppend]_vars

(***************************************************************************)
(* SpecProcess: one processImage call                                      *)
(***************************************************************************)
InitProcess == HookInit /\ StoreInit /\ ProcIdle /\ ClassIdle /\ DecodeIdle
NextProcess ==
  \/ CallProcessImage /\ UNCHANGED <<hookVars, storeVars, classVars, decodeVars>>
  \/ LoadResolves /\ UNCHANGED <<hookVars, storeVars, classVars, decodeVars>>
  \/ LoadRejects /\ UNCHANGED <<hookVars, storeVars, classVars, decodeVars>>
  \/ RenderDesktop /\ UNCHANGED <<hookVars, storeVars, classVars, decodeVars>>
  \/ RenderMobile /\ UNCHANGED <<hookVars, storeVars, classVars, decodeVars>>
  \/ BlobArrives /\ UNCHANGED <<hookVars, storeVars, classVars, decodeVars>>
  \/ PromiseAllFulfilled /\ UNCHANGED <<hookVars, storeVars, classVars, decodeVars>>
  \/ PromiseAllRejected /\ UNCHANGED <<hookVars, storeVars, classVars, decodeVars>>
SpecProcess == InitProcess /\ [][NextProcess]_vars

(***************************************************************************)
(* SpecRender: one renderVariant call over a sweep of sizes                *)
(***************************************************************************)
InitRender ==
  /\ HookInit
  /\ StoreInit
  /\ ClassIdle
  /\ DecodeIdle
  /\ pc = "renderOnly"
  /\ pFile = None
  /\ pOptions = None
  /\ \E t \in 1..MaxTarget :
       mergedOptions = [DEFAULT_OPTIONS EXCEPT !.desktop.width = t]
  /\ \E img \in [width : 0..MaxWidth, height : 0..MaxHeight] : image = Some(img)
  /\ loadImageCalls = 0
  /\ canvases = <<>>
  /\ drawCalls = <<>>
  /\ encodes = <<>>
  /\ render = [v \in Variants |-> NotStarted]
  /\ firstRejection = NULL
  /\ report = None
  /\ pError = NULL
  /\ perfNow = 0
  /\ startTime = 0
NextRender ==
  \/ RenderOnly /\ UNCHANGED <<hookVars, storeVars, classVars, decodeVars>>
  \/ BlobArrives /\ UNCHANGED <<hookVars, storeVars, classVars, decodeVars>>
SpecRender == InitRender /\ [][NextRender]_vars

(***************************************************************************)
(* SpecClassify: isHeicFile and isSupportedImageFile over a set of inputs  *)
(***************************************************************************)

InitClassify ==
  /\ HookInit
  /\ StoreInit
  /\ ProcIdle
  /\ DecodeIdle
  /\ \E file \in ClassifyFiles : input = Some(file)
  /\ classified = None

\* isHeicFile(file) and isSupportedImageFile(file), called on the input
Classify ==
  /\ classified = None
  /\ classified' = Some([heic |-> isHeicFile(input[1]),
                         supported |-> isSupportedImageFile(input[1])])
  /\ UNCHANGED input

NextClassify ==
  Classify /\ UNCHANGED <<hookVars, storeVars, procVars, decodeVars>>
SpecClassify == InitClassify /\ [][NextClassify]_vars

(***************************************************************************)
(* SpecDecode: overlapping loadImage calls of the default dependencies     *)
(***************************************************************************)
InitDecode ==
  /\ HookInit
  /\ StoreInit
  /\ ProcIdle
  /\ ClassIdle
  /\ heicConverterPromise = "null"
  /\ importCalls = 0
  /\ hasCreateImageBitmap \in BOOLEAN
  /\ hasDecode \in BOOLEAN
  /\ decodes = [d \in Decodes |-> DecodeNotCalled]
NextDecode ==
  \/ CallLoadImage /\ UNCHANGED <<hookVars, storeVars, procVars, classVars>>
  \/ (\E ok \in BOOLEAN : ImportSettled(ok))
       /\ UNCHANGED <<hookVars, storeVars, procVars, classVars>>
  \/ (\E d \in Decodes : ConverterReady(d))
       /\ UNCHANGED <<hookVars, storeVars, procVars, classVars>>
  \/ (\E d \in Decodes : \E result \in ConverterResults :
         ConverterSettled(d, result))
       /\ UNCHANGED <<hookVars, storeVars, procVars, classVars>>
  \/ (\E d \in Decodes : \E ok \in BOOLEAN : \E bitmap \in BitmapSizes :
         CreateImageBitmapSettled(d, ok, bitmap))
       /\ UNCHANGED <<hookVars, storeVars, procVars, classVars>>
  \/ (\E d \in Decodes : \E callback \in Callbacks : \E size \in ImageSizes :
         ImageCallback(d, callback, size))
       /\ UNCHANGED <<hookVars, storeVars, procVars, classVars>>
SpecDecode == InitDecode /\ [][NextDecode]_vars

(***************************************************************************)
(* Properties                                                              *)
(***************************************************************************)

\* the result of call c is visible in optimized, previewUrls or logs
Shown(c) ==
  \/ optimized # None /\ optimized[1].id = c
  \/ previewUrls # None /\ previewUrls[1].desktop.blob.of = c
  \/ previewUrls # None /\ previewUrls[1].mobile.blob.of = c
  \/ \E i \in 1..Len(logs) : [id |-> logs[i].id, call |-> c] \in entryOf

\* the tokens handed out so far, with the call each belongs to
Issued ==
  {[call |-> p.call, requestId |-> p.requestId] : p \in pending}
  \cup {[call |-> s.call, requestId |-> s.requestId] : s \in settled}

\* C1: when selection A is followed by selection B before A's processImage
\* settles, A's result never appears in optimized, previewUrls or logs,
\* neither while A is in flight nor after it has settled behind B; and once
\* the latest request has resolved, optimized and previewUrls are its result.
C1_Supersession ==
  /\ \A p \in pending : ~Shown(p.call)
  /\ \A s \in settled : ~s.current => ~Shown(s.call)
  /\ \A s \in settled :
       (s.ok /\ s.current /\ s.requestId = requestIdRef) =>
         /\ optimized # None
         /\ optimized[1].id = s.call
         /\ previewUrls # None
         /\ previewUrls[1].desktop.blob = optimized[1].desktop.blob
         /\ previewUrls[1].mobile.blob = optimized[1].mobile.blob

\* A (call 1) and B (call 2) both resolved, B first; A settled last, stale
C1_Witness ==
  /\ last = [op |-> "resolve", call |-> 1, file |-> None]
  /\ \E a, b \in settled :
       /\ a.call = 1 /\ a.ok /\ ~a.current
       /\ b.call = 2 /\ b.ok /\ b.current
  /\ optimized # None
  /\ optimized[1].id = 2
  /\ Len(logs) = 1

\* C2: when a request completes, with success or with failure, and its
\* token differs from the counter, none of optimized, previewUrls, status,
\* errorMessage and logs changes.
C2_StaleCompletionIsDiscarded ==
  [][\A p \in pending :
       (p \notin pending' /\ p.requestId # requestIdRef) =>
         UNCHANGED <<optimized, previewUrls, status, errorMessage, logs>>]_vars

\* a stale request has just failed and the newer request's report stays
C2_Witness ==
  /\ last.op = "reject"
  /\ \E s \in settled : s.call = last.call /\ ~s.ok /\ ~s.current
  /\ status = "ready"
  /\ errorMessage = NULL

\* C3: every call of handleFileSelection supersedes the requests before it:
\* a request that completes after a later selection, supported or not,
\* changes nothing of what is shown.
C3_LatestSelectionWins ==
  [][\A p \in pending :
       (p \notin pending' /\ p.call # calls) =>
         UNCHANGED <<status, errorMessage, optimized, previewUrls, logs>>]_vars

\* C4 (counts): one log id is created per successful completion that was
\* current, and no call settles twice.
C4_Counts ==
  /\ logIdCount = Cardinality({s \in settled : s.ok /\ s.current})
  /\ Cardinality(entryOf) = logIdCount
  /\ \A s, t \in settled : s.call = t.call => s = t

\* C4 (step): a successful completion whose token equals the counter sets
\* optimized and previewUrls to its result, status to 'ready', and puts
\* exactly one new entry in front of the log.
C4_Step ==
  \A p \in pending :
    (p \notin pending' /\ p.requestId = requestIdRef /\ last'.op = "resolve") =>
      /\ status' = "ready"
      /\ optimized' # None
      /\ optimized'[1].id = p.call
      /\ previewUrls' # None
      /\ previewUrls'[1].desktop.blob = optimized'[1].desktop.blob
      /\ previewUrls'[1].mobile.blob = optimized'[1].mobile.blob
      /\ urlCount' = urlCount + 2
      /\ Len(logs') = Min(Len(logs) + 1, maxLogEntries)
      /\ logs'[1].fileName = p.file.name
      /\ \A i \in 1..Len(logs) : logs[i].id # logs'[1].id
      /\ \A i \in 2..Len(logs') : logs'[i] = logs[i - 1]

\* C4: a request that completes successfully while its token equals the
\* counter updates the shared state exactly once, and the number of log
\* appends equals the number of current successful completions.
C4_AppliedExactlyOnce == []C4_Counts /\ [][C4_Step]_vars

\* two current successes have been applied, one log entry each
C4_Witness ==
  /\ last.op = "resolve"
  /\ status = "ready"
  /\ logIdCount = 2
  /\ Len(logs) = 2
  /\ Cardinality({s \in settled : s.ok /\ s.current}) = 2

\* C5 (state): distinct requests hold distinct tokens, every token lies in
\* 1..counter, and at most one issued token equals the counter.
C5_Tokens ==
  /\ \A a, b \in Issued : a.requestId = b.requestId => a.call = b.call
  /\ \A a \in Issued : a.requestId \in 1..requestIdRef
  /\ Cardinality({a \in Issued : a.requestId = requestIdRef}) <= 1

\* C5 (step): the counter never decreases, grows by exactly 1 on an
\* accepted selection and only then, and is not modified on completion.
C5_Step ==
  /\ requestIdRef' >= requestIdRef
  /\ (pending' \ pending # {}) => requestIdRef' = requestIdRef + 1
  /\ (pending \ pending' # {}) => requestIdRef' = requestIdRef
  /\ requestIdRef' # requestIdRef => (pending' \ pending # {})

\* C5: the request counter is monotone, steps by one per accepted
\* selection, is untouched by completions, and at most one token is current.
C5_CounterMonotone == []C5_Tokens /\ [][C5_Step]_vars

\* two requests in flight with tokens 1 and 2, the counter at 2
C5_Witness ==
  /\ requestIdRef = 2
  /\ \E p, q \in pending : p.requestId = 1 /\ q.requestId = 2

\* C6: for an input that is no supported image (type text/plain, name
\* note.txt), processImage fails with the unsupported-file error and
\* deps.loadImage is never invoked.
C6_UnsupportedFailsBeforeDecode ==
  (pFile = Some(NoteTxt)) =>
    /\ loadImageCalls = 0
    /\ pc = "rejected"
    /\ pError = UnsupportedMessage

\* C7: right after an unsupported file (type text/plain, name note.txt) is
\* selected, status is 'error' and errorMessage is the unsupported-file
\* message, whatever the state before.
C7_UnsupportedSelectionEndsInError ==
  (last.op = "select" /\ last.file = Some(NoteTxt)) =>
    /\ status = "error"
    /\ errorMessage = UnsupportedMessage

\* note.txt selected while a report is displayed and a request is in flight
C7_Witness ==
  /\ last.op = "select"
  /\ last.file = Some(NoteTxt)
  /\ status = "error"
  /\ errorMessage = UnsupportedMessage
  /\ optimized # None
  /\ pending # {}

\* round(n / d) in exact arithmetic, halves upward
ExactRound(n, d) == (2 * n + d) \div (2 * d)

\* n / d lies exactly halfway between two integers
IsHalfway(n, d) == (2 * n) % d = 0 /\ ((2 * n) \div d) % 2 = 1

\* the surface created for variant v
CanvasOf(v) == canvases[CHOOSE c \in 1..Len(canvases) : canvases[c].variant = v]

\* C8 as stated: a variant rendered from a W x H raster for target width T
\* has width min(W,T) and height round(H * min(W,T) / W), its surface has
\* exactly that size, and the width exceeds neither W nor T.
C8_ExactSizing ==
  \A v \in Variants :
    render[v].st = "fulfilled" =>
      LET r == render[v].value[1]
          W == image[1].width
          H == image[1].height
          T == mergedOptions[v].width
      IN  /\ r.width = Min(W, T)
          /\ r.height = ExactRound(H * Min(W, T), W)
          /\ CanvasOf(v).width = r.width
          /\ CanvasOf(v).height = r.height
          /\ r.width <= W
          /\ r.width <= T

\* C8 amended: width and surface as stated; the height is the rounded
\* double product, which is round(H * min(W,T) / W) unless that quotient is
\* exactly halfway between two integers, where it may be one less.
C8_SizingWithinDoubleRounding ==
  \A v \in Variants :
    render[v].st = "fulfilled" =>
      LET r == render[v].value[1]
          W == image[1].width
          H == image[1].height
          T == mergedOptions[v].width
          exact == ExactRound(H * Min(W, T), W)
      IN  /\ r.width = Min(W, T)
          /\ r.height \in {exact - 1, exact}
          /\ ~IsHalfway(H * Min(W, T), W) => r.height = exact
          /\ CanvasOf(v).width = r.width
          /\ CanvasOf(v).height = r.height
          /\ r.width <= W
          /\ r.width <= T

\* a 22 x 11 raster rendered for target width 15: 11 * 15 / 22 = 7.5, and
\* the height returned is 7
C8_Witness ==
  /\ render["desktop"].st = "fulfilled"
  /\ image = Some([width |-> 22, height |-> 11])
  /\ mergedOptions.desktop.width = 15
  /\ render["desktop"].value[1].width = 15
  /\ render["desktop"].value[1].height = 7
  /\ CanvasOf("desktop").height = 7

\* C9: every variant renderVariant returns from a raster with W >= 1 and
\* H >= 1 for a target width >= 1 has width >= 1 and height >= 1.
C9_PositiveDimensions ==
  \A v \in Variants :
    render[v].st = "fulfilled" =>
      /\ render[v].value[1].width >= 1
      /\ render[v].value[1].height >= 1

\* C10: processImage hands its caller either a report with desktop, mobile,
\* original and durationMs all populated, or an error and no report; a
\* failed decode or a failed render of either variant leaves no report,
\* also when the other render succeeded.
C10_ReportAllOrNothing ==
  /\ report # None =>
       /\ pc = "resolved"
       /\ pError = NULL
       /\ \A v \in Variants : render[v].st = "fulfilled"
       /\ report[1].desktop # None
       /\ report[1].mobile # None
       /\ report[1].desktop = render["desktop"].value
       /\ report[1].mobile = render["mobile"].value
       /\ report[1].original.width = image[1].width
       /\ report[1].original.height = image[1].height
       /\ report[1].original.name = pFile[1].name
       /\ report[1].durationMs >= 0
  /\ pc = "resolved" => report # None
  /\ pc = "rejected" => (report = None /\ pError # NULL)
  /\ (\E v \in Variants : render[v].st = "rejected") => report = None

\* one render succeeded, the other failed, processImage rejected
C10_Witness ==
  /\ pc = "rejected"
  /\ report = None
  /\ pError = WebPFailedMessage
  /\ \E v, w \in Variants :
       render[v].st = "fulfilled" /\ render[w].st = "rejected"

\* the toBlob callback that ran for variant v
EncodeOf(v) == encodes[CHOOSE i \in 1..Len(encodes) : encodes[i].variant = v]

\* C11: whatever the order in which the two encodes complete, report.desktop
\* is the result rendered with the desktop options and report.mobile the one
\* rendered with the mobile options, each variant's size is the byte length
\* of the blob its own surface produced, and the surfaces are created
\* desktop first, then mobile.
C11_VariantsKeepTheirOwnResults ==
  /\ Len(canvases) <= 2
  /\ \A c \in 1..Len(canvases) :
       canvases[c].variant = IF c = 1 THEN "desktop" ELSE "mobile"
  /\ report # None =>
       \A v \in Variants :
         LET r == report[1][v][1]
             e == EncodeOf(v)
         IN  /\ Cardinality({i \in 1..Len(encodes) : encodes[i].variant = v}) = 1
             /\ r.width = Min(image[1].width, mergedOptions[v].width)
             /\ r.quality = mergedOptions[v].quality
             /\ canvases[e.canvas].variant = v
             /\ e.canvas = IF v = "desktop" THEN 1 ELSE 2
             /\ r.width = canvases[e.canvas].width
             /\ r.height = canvases[e.canvas].height
             /\ e.blob # None
             /\ r.blob = e.blob[1]
             /\ r.size = e.blob[1].size

\* the mobile encode completed first, with 1 byte; the desktop encode
\* reported 2 bytes; the report keeps 2 for desktop and 1 for mobile
C11_Witness ==
  /\ report # None
  /\ Len(encodes) = 2
  /\ encodes[1].variant = "mobile"
  /\ encodes[2].variant = "desktop"
  /\ report[1].desktop[1].size = 2
  /\ report[1].mobile[1].size = 1
  /\ report[1].desktop[1].width # report[1].mobile[1].width

\* the log the first render loaded from the store
LoadedLogs == parseStoredLogs(storedAtLoad)

\* C12 (step): appending to a log of at most 20 entries puts the new entry
\* at index 0, keeps the earlier entries in their order behind it, and cuts
\* the result to 20 by dropping from the end.
C12_Step ==
  (logIdCount' = logIdCount + 1 /\ Len(logs) <= maxLogEntries) =>
    /\ Len(logs') = Min(Len(logs) + 1, maxLogEntries)
    /\ logs'[1].id = logIdCount'
    /\ \A i \in 2..Len(logs') : logs'[i] = logs[i - 1]

\* C12 (state): after k appends to a loaded log of at most 20 entries the
\* log is the k new entries, newest first, followed by the loaded ones, cut
\* to 20.
C12_State ==
  Len(LoadedLogs) <= maxLogEntries =>
    /\ Len(logs) = Min(logIdCount + Len(LoadedLogs), maxLogEntries)
    /\ \A i \in 1..Len(logs) :
         IF i <= logIdCount THEN logs[i].id = logIdCount - i + 1
         ELSE logs[i] = LoadedLogs[i - logIdCount]

\* C12: an append puts the new entry first, keeps the others in order and
\* truncates to 20 from the end; 25 appends to an empty log leave the 20
\* most recent, most recent first.
C12_AppendKeepsNewestTwenty == []C12_State /\ [][C12_Step]_vars

\* 25 entries appended to an empty log: entries 25 down to 6 remain
C12_Witness ==
  /\ storedAtLoad = None
  /\ logIdCount = 25
  /\ Len(logs) = maxLogEntries
  /\ logs[1].id = 25
  /\ logs[maxLogEntries].id = 6

\* C13: in every reachable state, the state right after the initial load
\* from the store included, the log holds at most 20 entries.
C13_LogNeverExceedsTwenty == Len(logs) <= maxLogEntries

\* C14: for a log of at most 20 entries, what the effect writes
\* (JSON.stringify(logs)) reloads through parseStoredLogs as the same
\* entries in the same order; after a write that went through, the store
\* itself reloads as the log in memory.
C14_PersistReloadRoundTrip ==
  Len(logs) <= maxLogEntries =>
    /\ parseStoredLogs(Some(JSONStringify(logs))) = logs
    /\ setItemLast = "ok" => parseStoredLogs(storage) = logs

\* an append onto 19 loaded entries was written: the store holds 20 entries
\* that reload as the log in memory, the new one first
C14_Witness ==
  /\ setItemLast = "ok"
  /\ last.op = "resolve"
  /\ Len(logs) = maxLogEntries
  /\ Len(LoadedLogs) = maxLogEntries - 1
  /\ logs[1].id = 1
  /\ storage = Some(JSONStringify(logs))
  /\ Len(parseStoredLogs(storage)) = maxLogEntries

\* the persisted content is absent, is no JSON, or is JSON of a non-array
Malformed(value) ==
  \/ value = None
  \/ value[1].text # "json"
  \/ value[1].value.t # "arr"

\* C15: on the initial load, persisted content that is absent, does not
\* parse, or parses to a non-array gives an empty log, and no error is
\* raised or shown.
C15_MalformedStoreLoadsEmpty ==
  (last.op = "init" /\ Malformed(storedAtLoad)) =>
    /\ logs = <<>>
    /\ uncaught = NULL
    /\ status = "idle"
    /\ errorMessage = NULL

\* the store held the JSON text of a single object that looks like an entry
C15_Witness ==
  /\ last.op = "init"
  /\ storedAtLoad = Some(JsonText(JsonObj(BareEntry)))
  /\ logs = <<>>
  /\ uncaught = NULL

\* C16 (step): a step whose setItem threw leaves the store as it was and
\* the hook's state as the handler set it: the log holds the mutated value,
\* and status, errorMessage, optimized and previewUrls are what the append
\* or clear makes them without a failure.
C16_Step ==
  setItemLast' = "threw" =>
    /\ uncaught' = NULL
    /\ storage' = storage
    /\ CASE last'.op = "clear" ->
              /\ logs' = <<>>
              /\ UNCHANGED <<status, errorMessage, optimized, previewUrls>>
         [] last'.op = "resolve" ->
              /\ Len(logs') = Min(Len(logs) + 1, maxLogEntries)
              /\ logs'[1].id = logIdCount'
              /\ \A i \in 2..Len(logs') : logs'[i] = logs[i - 1]
              /\ status' = "ready"
              /\ errorMessage' = errorMessage
              /\ optimized' # None
              /\ optimized'[1].id = last'.call
              /\ previewUrls' # None
         [] last'.op = "mount" ->
              UNCHANGED <<logs, status, errorMessage, optimized, previewUrls>>
         [] OTHER -> FALSE

\* C16: when setItem fails on an append or a clear, the log in memory still
\* takes the mutated value, status, errorMessage, optimized and previewUrls
\* are not touched by the failure, and no error escapes.
C16_StoreFailureIsSwallowed == [](uncaught = NULL) /\ [][C16_Step]_vars

\* an append whose write threw: the log has the new entry, the status is
\* 'ready', and the store still holds the older content
C16_Witness ==
  /\ setItemLast = "threw"
  /\ last.op = "resolve"
  /\ status = "ready"
  /\ errorMessage = NULL
  /\ logs # <<>>
  /\ logs[1].id = logIdCount
  /\ parseStoredLogs(storage) # logs

\* the declared type is absent or generic
GenericType(type) == type = <<>> \/ type = TypeOctetStream

\* the name ends, whatever its case, with .heic or .heif
HeicExtension(name) ==
  endsWith(toLowerCase(name), ExtHeic) \/ endsWith(toLowerCase(name), ExtHeif)

\* C17: isHeicFile is true exactly when the declared type is image/heic or
\* image/heif, or the declared type is absent or generic and the name ends
\* with .heic or .heif in any case; a specific other declared type (image/png,
\* text/plain) is never classified non-native because of the extension.
C17_HeicByTypeOrExtensionOfUntyped ==
  classified # None =>
    LET file == input[1]
    IN  classified[1].heic <=>
          \/ file.type \in {TypeHeic, TypeHeif}
          \/ GenericType(file.type) /\ HeicExtension(file.name)

\* the value the caller supplied for field f of variant v, or None
Supplied(v, f) ==
  IF pOptions = None THEN None
  ELSE IF pOptions[1][v] = None THEN None
  ELSE pOptions[1][v][1][f]

\* C18: for each variant and each of width and quality, the effective value
\* is the override when the caller supplied that field and the default
\* (desktop 1920 / 0.8, mobile 720 / 0.7) otherwise, so that an override of
\* one field or one variant changes nothing else; each result is rendered
\* for the effective width and echoes the effective quality.
C18_PerFieldMerge ==
  pc # "idle" =>
    /\ \A v \in Variants : \A f \in {"width", "quality"} :
         mergedOptions[v][f] =
           IF Supplied(v, f) # None THEN Supplied(v, f)[1]
           ELSE IF v = "desktop" THEN (IF f = "width" THEN 1920 ELSE 80)
           ELSE (IF f = "width" THEN 720 ELSE 70)
    /\ \A v \in Variants :
         render[v].st = "fulfilled" =>
           /\ render[v].value[1].quality = mergedOptions[v].quality
           /\ render[v].value[1].width =
                Min(image[1].width, mergedOptions[v].width)

\* only the desktop width was overridden (to 1): the report's desktop is 1
\* wide at the default quality 0.8, the mobile variant keeps 720 / 0.7
C18_Witness ==
  /\ report # None
  /\ pOptions = Some([desktop |-> Some([width |-> Some(1), quality |-> None]),
                      mobile |-> None])
  /\ image[1].width = 2
  /\ report[1].desktop[1].width = 1
  /\ report[1].desktop[1].quality = 80
  /\ report[1].mobile[1].width = 2
  /\ report[1].mobile[1].quality = 70
  /\ mergedOptions.mobile = [width |-> 720, quality |-> 70]

\* how often variant v occurs in a sequence of records with a variant field
CountOf(s, v) == Cardinality({i \in 1..Len(s) : s[i].variant = v})

\* C19 (single shot): within one processImage call deps.loadImage is called
\* exactly once, each variant gets at most one surface, one draw and one
\* encode, and after a failed decode nothing is rendered.
C19_SingleShot ==
  /\ pc # "idle" => loadImageCalls = 1
  /\ \A v \in Variants :
       /\ CountOf(canvases, v) <= 1
       /\ CountOf(drawCalls, v) <= 1
       /\ CountOf(encodes, v) <= 1
  /\ (pc = "rejected" /\ image = None) =>
       /\ pError = LoadErrorMessage
       /\ canvases = <<>>
       /\ \A v \in Variants : render[v] = NotStarted
  /\ pc = "resolved" => \A v \in Variants : render[v].st # "rejected"

C20_DecodeFirstReportLast ==
  /\ (\E v \in Variants : render[v].st # "none") =>
       (image # None /\ pc \notin {"idle", "loading"})
  /\ canvases # <<>> => image # None
  /\ report # None =>
       /\ Len(canvases) = 2
       /\ Len(drawCalls) = 2
       /\ \A v \in Variants :
            CountOf(encodes, v) = 1 /\ EncodeOf(v).blob # None

\* C20 as stated: the decode completes before either render starts, both
\* renders are started before either encode completes, and the report is
\* assembled only after both encodes have completed.
C20_BothRendersStartBeforeAnyEncodeCompletes ==
  /\ C20_DecodeFirstReportLast
  /\ \A i \in 1..Len(encodes) : encodes[i].started = Variants

\* C20 amended (state): each encode completes after its own surface was
\* created and drawn; the only encode that can complete before both renders
\* were started is the desktop one, inside the desktop render call.
C20_OwnRenderBeforeEncode ==
  /\ C20_DecodeFirstReportLast
  /\ \A i \in 1..Len(encodes) :
       LET e == encodes[i]
       IN  /\ e.canvas \in 1..Len(canvases)
           /\ canvases[e.canvas].variant = e.variant
           /\ CountOf(drawCalls, e.variant) = 1
           /\ e.variant \in e.started
           /\ e.started # Variants =>
                (i = 1 /\ e.variant = "desktop" /\ e.started = {"desktop"})

\* C20 amended (step): a toBlob callback that runs after its render call
\* has returned runs after both renders were started.
C20_Step ==
  (Len(encodes') > Len(encodes) /\ pc' = pc) => Started = Variants

\* C20 amended: decode before the renders, report after both encodes; an
\* encode completes after its own surface was created and drawn, an
\* asynchronous one only after both renders were started, while a surface
\* that calls back synchronously completes the desktop encode before the
\* mobile render starts.
C20_RenderThenEncodeThenReport ==
  []C20_OwnRenderBeforeEncode /\ [][C20_Step]_vars

\* the desktop surface called back inside the desktop render call, before
\* the mobile render was started, and the report was assembled
C20_Witness ==
  /\ report # None
  /\ Len(encodes) = 2
  /\ encodes[1].variant = "desktop"
  /\ encodes[1].started = {"desktop"}
  /\ encodes[2].variant = "mobile"
  /\ encodes[2].started = Variants

\* C21: processing a 4000 x 2000 raster with the default options draws on a
\* surface 1920 wide and on a surface 720 wide, and makes at least 4
\* drawImage calls over the two variants.
C21_AtLeastFourDraws ==
  (report # None /\ image = Some(TestImage) /\ pOptions = None) =>
    /\ \E d \in 1..Len(drawCalls) : drawCalls[d].width = 1920
    /\ \E d \in 1..Len(drawCalls) : drawCalls[d].width = 720
    /\ Len(drawCalls) >= 4

\* the loadImage calls that went through convertHeicToBlob
HeicCalls == {d \in Decodes : decodes[d].pc # "idle" /\ isHeicFile(decodes[d].file[1])}

\* C22: however HEIC decode requests overlap and follow one another, also
\* when the first ones are concurrent and when one begins after the load has
\* failed, import('heic2any') is called at most once; every HEIC request
\* past its await has seen the outcome of that one cached promise: the
\* converter is called only when it is fulfilled, and every request fails
\* with the load error when it is rejected
C22_ConverterLoadedOnce ==
  /\ importCalls <= 1
  /\ (importCalls = 1) <=> (HeicCalls # {})
  /\ (importCalls = 1) <=> (heicConverterPromise # "null")
  /\ \A d \in HeicCalls :
       /\ decodes[d].pc # "awaitConverter" =>
            heicConverterPromise \in {"fulfilled", "rejected"}
       /\ heicConverterPromise = "fulfilled" =>
            decodes[d].error # ImportErrorMessage
       /\ (heicConverterPromise = "rejected" /\ decodes[d].pc # "awaitConverter") =>
            /\ decodes[d].pc = "rejected"
            /\ decodes[d].error = ImportErrorMessage
            /\ decodes[d].converterCalls = 0

\* two HEIC requests, the second made after the load had failed, both failed
\* with the one load error
C22_Witness ==
  /\ importCalls = 1
  /\ \E d, e \in HeicCalls :
       /\ d # e
       /\ ~decodes[d].afterFailedLoad
       /\ decodes[e].afterFailedLoad
       /\ decodes[d].error = ImportErrorMessage
       /\ decodes[e].error = ImportErrorMessage

\* the errors of convertHeicToBlob: the failed load, the rejected converter,
\* the empty result
ConversionErrors == {ImportErrorMessage, ConverterErrorMessage, HeicFailedMessage}

SettledByFirst(r) ==
  /\ r.settled
  /\ r.settles = 1
  /\ r.urlsRevoked = 1
  /\ IF r.fired[1] \in {"onload", "decodeResolved"}
     THEN /\ r.pc = "resolved"
          /\ r.result # None
          /\ r.result[1].source = "image"
          /\ r.error = NULL
     ELSE /\ r.pc = "rejected"
          /\ r.result = None
          /\ r.error = LoadErrorMessage

\* a callback of call d runs in this step
CallbackStep(d) == Len(decodes'[d].fired) = Len(decodes[d].fired) + 1

\* C24: on the fallback path of getImageFromBlob, in whatever order onload,
\* onerror and the settling of decode() run, the promise is settled once,
\* with the outcome of the first callback; the staging URL is revoked once,
\* in the step that settles the promise and not before; a later callback
\* changes nothing
C24_FallbackSettlesOnce ==
  /\ [](\A d \in Decodes :
          LET r == decodes[d] IN
          /\ r.urlsCreated <= 1
          /\ r.settles <= 1
          /\ r.urlsRevoked = r.settles
          /\ r.fired # <<>> => (r.urlsCreated = 1 /\ SettledByFirst(r))
          /\ r.pc = "fallback" =>
               (r.fired = <<>> /\ r.urlsCreated = 1 /\ r.urlsRevoked = 0
                  /\ ~r.settled))
  /\ [][\A d \in Decodes :
          CallbackStep(d) =>
            IF decodes[d].fired = <<>>
            THEN /\ decodes'[d].settles = 1
                 /\ decodes'[d].urlsRevoked = 1
            ELSE decodes'[d] =
                   [decodes[d] EXCEPT !.fired = decodes'[d].fired]]_vars

\* decode() rejected first and onload ran afterwards: the call stays rejected
\* and the URL was revoked once
C24_Witness ==
  \E d \in Decodes :
    /\ decodes[d].fired = <<"decodeRejected", "onload">>
    /\ decodes[d].pc = "rejected"
    /\ decodes[d].urlsRevoked = 1
    /\ decodes[d].settles = 1

\* C25: getImageFromBlob calls createImageBitmap when it exists, and when
\* that succeeds the call resolves with the bitmap and no staging URL was
\* created; the fallback path is entered exactly when createImageBitmap is
\* missing or threw; after a throw the outcome of the call is the outcome of
\* the fallback path, never an error of its own
C25_FastPathThenFallback ==
  \A d \in Decodes :
    LET r == decodes[d] IN
    r.blob # None =>
      /\ r.bitmapCalls = (IF hasCreateImageBitmap THEN 1 ELSE 0)
      /\ ~hasCreateImageBitmap => r.bitmapOutcome = "none"
      /\ (r.pc = "awaitBitmap") <=>
           (hasCreateImageBitmap /\ r.bitmapOutcome = "none")
      /\ r.bitmapOutcome = "ok" =>
           /\ r.pc = "resolved"
           /\ r.result # None
           /\ r.result[1].source = "bitmap"
           /\ r.urlsCreated = 0
           /\ r.fired = <<>>
      /\ (r.urlsCreated = 1) <=>
           (~hasCreateImageBitmap \/ r.bitmapOutcome = "threw")
      /\ r.bitmapOutcome = "threw" =>
           /\ r.fired = <<>> => (r.pc = "fallback" /\ r.error = NULL)
           /\ r.pc = "rejected" =>
                (r.fired # <<>> /\ r.fired[1] \in {"onerror", "decodeRejected"})
           /\ (r.fired # <<>> /\ r.fired[1] \in {"onload", "decodeResolved"}) =>
                (r.pc = "resolved" /\ r.result[1].source = "image")

\* createImageBitmap threw and the image element then loaded: the call
\* resolved from the fallback path, next to a call the bitmap served
C25_Witness ==
  /\ hasCreateImageBitmap
  /\ \E d, e \in Decodes :
       /\ decodes[d].bitmapOutcome = "threw"
       /\ decodes[d].pc = "resolved"
       /\ decodes[d].result[1].source = "image"
       /\ decodes[d].urlsCreated = 1
       /\ decodes[e].bitmapOutcome = "ok"
       /\ decodes[e].result[1].source = "bitmap"
       /\ decodes[e].urlsCreated = 0

\* C26: when loadImage resolved with a raster of width 0 or height 0,
\* processImage rejects with 'Source image has invalid dimensions.', builds
\* no report, and createCanvas is never called (so nothing is drawn or
\* encoded either)
C26_ZeroDimensionFailsBeforeCanvas ==
  (image # None /\ (image[1].width = 0 \/ image[1].height = 0)) =>
    /\ canvases = <<>>
    /\ drawCalls = <<>>
    /\ encodes = <<>>
    /\ report = None
    /\ pc # "resolved"
    /\ \A v \in Variants :
         render[v].st # "none" => render[v] = Rejected(InvalidDimensionsMessage)
    /\ pc = "awaitAll" => firstRejection = InvalidDimensionsMessage
    /\ pc = "rejected" => pError = InvalidDimensionsMessage

\* a raster two wide and zero high: processImage has rejected with the
\* message and no surface exists
C26_Witness ==
  /\ image = Some([width |-> 2, height |-> 0])
  /\ pc = "rejected"
  /\ pError = InvalidDimensionsMessage
  /\ render["desktop"].st = "rejected"
  /\ render["mobile"].st = "rejected"
  /\ canvases = <<>>
  /\ report = None

\* the object URLs created and not revoked
LiveUrls == (1..urlCount) \ revokedUrls

\* the URLs previewUrls holds
HeldUrls ==
  IF previewUrls = None THEN {}
  ELSE {previewUrls[1].desktop.n, previewUrls[1].mobile.n}

\* C27: preview URLs do not leak across requests. Only a request that was
\* current when it resolved created URLs (two each); once the effects of a
\* step have run, the URLs created and not revoked are exactly the two in
\* previewUrls, so the pair a newer result replaced has been revoked, both
\* of its URLs.
C27_PreviewUrlsDoNotLeak ==
  /\ urlCount = 2 * Cardinality({s \in settled : s.ok /\ s.current})
  /\ revokedUrls \subseteq 1..urlCount
  /\ LiveUrls = HeldUrls
  /\ previewUrls # None => Cardinality(HeldUrls) = 2

\* a second result replaced the first (URLs 1 and 2 revoked, 3 and 4 held)
\* and a superseded request resolved without creating a URL
C27_Witness ==
  /\ urlCount = 4
  /\ revokedUrls = {1, 2}
  /\ HeldUrls = {3, 4}
  /\ \E s \in settled : s.ok /\ ~s.current

\* the calls of handleFileSelection that reached processImage
ProcessCalls == {q.call : q \in pending} \cup {s.call : s \in settled}

\* C28: a selection of an unsupported file leaves requestIdRef, optimized,
\* previewUrls and logs as they were and starts no processImage call; so a
\* request in flight is not superseded by it: when it resolves with no
\* supported selection made after it, its result is applied.
C28_RefusalSupersedesNothing ==
  [][/\ (last'.op = "select" /\ calls' = calls + 1
           /\ ~isSupportedImageFile(last'.file[1])) =>
          /\ UNCHANGED <<requestIdRef, optimized, previewUrls, logs, pending,
                         urlCount, logIdCount>>
          /\ ProcessCalls' = ProcessCalls
     /\ \A p \in pending :
          (p \notin pending' /\ last'.op = "resolve"
             /\ \A c \in ProcessCalls : c <= p.call) =>
            /\ status' = "ready"
            /\ optimized' # None
            /\ optimized'[1].id = p.call
            /\ previewUrls' # None
            /\ Len(logs') > 0
            /\ logs'[1].id = logIdCount']_vars

\* a request resolved after an unsupported file had been selected during its
\* flight, and its result is shown
C28_Witness ==
  /\ last.op = "resolve"
  /\ last.call < calls
  /\ \A c \in ProcessCalls : c <= last.call
  /\ status = "ready"
  /\ optimized # None
  /\ optimized[1].id = last.call

\* the calls whose result was applied
AppliedCalls == {s.call : s \in {t \in settled : t.ok /\ t.current}}

\* C29: when the request whose token equals the counter fails, status
\* becomes 'error' and errorMessage the failure's message, and nothing else
\* of the hook's state changes: optimized, previewUrls and logs stay those of
\* the last request whose result was applied, no log entry is added, no URL
\* is created or revoked and nothing is written to the store.
C29_FailureChangesOnlyStatusAndMessage ==
  [][\A p \in pending :
       (p \notin pending' /\ last'.op = "reject"
          /\ p.requestId = requestIdRef) =>
         /\ status' = "error"
         /\ errorMessage' \in {LoadErrorMessage, FallbackMessage}
         /\ UNCHANGED <<optimized, previewUrls, logs, requestIdRef, urlCount,
                        revokedUrls, logIdCount, entryOf, storage>>
         /\ IF AppliedCalls = {}
            THEN optimized' = None /\ previewUrls' = None
            ELSE /\ optimized' # None
                 /\ \A c \in AppliedCalls : c <= optimized'[1].id
                 /\ optimized'[1].id \in AppliedCalls
                 /\ previewUrls'[1].desktop.blob = optimized'[1].desktop.blob]_vars

\* the current request failed after an earlier one had succeeded: the error
\* is shown and the earlier report and its log entry are still there
C29_Witness ==
  /\ last.op = "reject"
  /\ status = "error"
  /\ errorMessage = LoadErrorMessage
  /\ \E s \in settled : s.call = last.call /\ s.current /\ ~s.ok
  /\ optimized # None
  /\ optimized[1].id < last.call
  /\ previewUrls # None
  /\ Len(logs) = 1

\* C30: processing never gets stuck. While status is 'processing' the
\* request whose token equals the counter is awaiting its processImage
\* promise and no settled request carries that token; and, every promise
\* settling in the end, a state with status 'processing' under token k is
\* followed by one with status 'ready' or 'error', unless a later selection
\* took a new token.
C30_ProcessingEnds ==
  /\ [](status = "processing" =>
          /\ \E p \in pending : p.requestId = requestIdRef
          /\ \A s \in settled : s.requestId # requestIdRef)
  /\ \A k \in 1..MaxCalls :
       (status = "processing" /\ requestIdRef = k)
         ~> (status \in {"ready", "error"} \/ requestIdRef # k)

\* status is 'processing' for the third request while both earlier ones,
\* superseded, have settled
C30_Witness ==
  /\ status = "processing"
  /\ requestIdRef = 3
  /\ Cardinality(pending) = 1
  /\ Cardinality({s \in settled : ~s.current}) = 2

\* C31: status and the error fields agree in every reachable state: with
\* status 'processing' errorMessage is null, with status 'error' it is a
\* message, and with status 'ready' optimized and previewUrls are both set
\* (to the report and the URLs of one and the same request).
C31_StatusAndErrorAgree ==
  /\ status \in {"idle", "processing", "ready", "error"}
  /\ status = "processing" => errorMessage = NULL
  /\ status = "error" =>
       errorMessage \in {UnsupportedMessage, LoadErrorMessage, FallbackMessage}
  /\ status = "ready" =>
       /\ optimized # None
       /\ previewUrls # None
       /\ previewUrls[1].desktop.blob = optimized[1].desktop.blob
       /\ previewUrls[1].mobile.blob = optimized[1].mobile.blob

\* a request went through 'processing' and 'ready', and a later one failed
\* with a thrown value that is no Error: status is 'error' with the fallback
\* message while the report of the earlier request is still set
C31_Witness ==
  /\ status = "error"
  /\ errorMessage = FallbackMessage
  /\ last.op = "reject"
  /\ optimized # None
  /\ previewUrls # None
  /\ \E s \in settled : s.ok /\ s.current
====
